---------------------------- MODULE Spec2Model ----------------------------
(***************************************************************************)
(* Model of the memory store and relevance-ranking engine of inked:        *)
(* FastSemanticSearch (search.ts), the memories table of DatabaseManager   *)
(* (database.ts) and the read/write tool handlers (tools.ts); and of the    *)
(* drafting server of the same repository: InkedServer (index.ts),         *)
(* InkedFactory (factory.ts) and MarkdownProcessor.                        *)
(*                                                                         *)
(* Representation.                                                         *)
(*  - A JavaScript string is a sequence of one-character strings, so that  *)
(*    lower-casing, the punctuation regex, splitting, stemming, substring  *)
(*    tests and the edit distance are computed character by character.     *)
(*  - A relevance score is kept in hundredths (100 * score); intermediate *)
(*    sums are exact rationals [n, d].  The source computes in IEEE        *)
(*    doubles and rounds to two decimals at the end; the model rounds the  *)
(*    exact value the same way (half up).  The two agree unless the exact  *)
(*    value lies on a rounding boundary (5 * 1.001 = 5.005 for a content   *)
(*    of 995 characters), which no text of the vocabularies below does.    *)
(*  - created_at is the rank of the second in which a row was inserted.    *)
(*  - A store operation a handler awaits is one step; between the steps   *)
(*    of one call the steps of other calls may run.  A failing store       *)
(*    operation is a step of its own that carries the error.               *)
(*  - A file is the sequence of characters written to its path.            *)
(***************************************************************************)
EXTENDS Integers, Sequences, FiniteSets, TLC

----------------------------------------------------------------------------
(* Characters                                                              *)

Lower == <<"a","b","c","d","e","f","g","h","i","j","k","l","m",
           "n","o","p","q","r","s","t","u","v","w","x","y","z">>

Upper == <<"A","B","C","D","E","F","G","H","I","J","K","L","M",
           "N","O","P","Q","R","S","T","U","V","W","X","Y","Z">>

Digits == {"0","1","2","3","4","5","6","7","8","9"}

Range(f) == {f[i] : i \in DOMAIN f}

\* the regex class \w
WordChars == Range(Lower) \cup Range(Upper) \cup Digits \cup {"_"}

IsWordChar(c) == c \in WordChars

\* the regex class \s
IsSpace(c) == c \in {" ", "\t", "\n"}

LowerOf == [c \in Range(Upper) |-> Lower[CHOOSE i \in DOMAIN Upper : Upper[i] = c]]

UpperOf == [c \in Range(Lower) |-> Upper[CHOOSE i \in DOMAIN Lower : Lower[i] = c]]

LowerChar(c) == IF c \in DOMAIN LowerOf THEN LowerOf[c] ELSE c

UpperChar(c) == IF c \in DOMAIN UpperOf THEN UpperOf[c] ELSE c

toLowerCase(text) == [i \in 1..Len(text) |-> LowerChar(text[i])]

toUpperCase(text) == [i \in 1..Len(text) |-> UpperChar(text[i])]

\* String.prototype.endsWith
endsWith(word, suffix) ==
  /\ Len(suffix) <= Len(word)
  /\ SubSeq(word, Len(word) - Len(suffix) + 1, Len(word)) = suffix

\* String.prototype.includes
strIncludes(text, pat) ==
  \E i \in 0..(Len(text) - Len(pat)) :
     \A j \in 1..Len(pat) : text[i + j] = pat[j]

\* Array.prototype.includes
arrIncludes(arr, x) == \E i \in 1..Len(arr) : arr[i] = x

\* String.prototype.split(/\s+/): the maximal runs of non-blank characters in
\* order, with an empty first element when the text is empty or starts with a
\* blank and an empty last element when a non-empty text ends with one.
split(text) ==
  LET n == Len(text)
      starts == {i \in 1..n : ~IsSpace(text[i]) /\ (i = 1 \/ IsSpace(text[i-1]))}
      ends == {i \in 1..n : ~IsSpace(text[i]) /\ (i = n \/ IsSpace(text[i+1]))}
      kth(S, k) == CHOOSE s \in S : Cardinality({t \in S : t <= s}) = k
      runs == [k \in 1..Cardinality(starts) |->
                 SubSeq(text, kth(starts, k), kth(ends, k))]
      lead == IF n = 0 \/ IsSpace(text[1]) THEN << <<>> >> ELSE <<>>
      trail == IF n > 0 /\ IsSpace(text[n]) THEN << <<>> >> ELSE <<>>
  IN lead \o runs \o trail

----------------------------------------------------------------------------
(* Lexical resources                                                       *)

synonyms == <<
  [key |-> <<"p","r","e","f","e","r","e","n","c","e","s">>, syn |-> <<<<"s","e","t","t","i","n","g","s">>, <<"c","o","n","f","i","g">>, <<"o","p","t","i","o","n","s">>, <<"c","h","o","i","c","e","s">>>>],
  [key |-> <<"s","e","t","t","i","n","g","s">>, syn |-> <<<<"p","r","e","f","e","r","e","n","c","e","s">>, <<"c","o","n","f","i","g">>, <<"o","p","t","i","o","n","s">>, <<"c","o","n","f","i","g","u","r","a","t","i","o","n">>>>],
  [key |-> <<"p","r","o","j","e","c","t">>, syn |-> <<<<"w","o","r","k">>, <<"t","a","s","k">>, <<"a","s","s","i","g","n","m","e","n","t">>, <<"j","o","b">>>>],
  [key |-> <<"u","s","e","r">>, syn |-> <<<<"p","e","r","s","o","n">>, <<"c","l","i","e","n","t">>, <<"i","n","d","i","v","i","d","u","a","l">>>>],
  [key |-> <<"l","i","k","e","s">>, syn |-> <<<<"e","n","j","o","y","s">>, <<"p","r","e","f","e","r","s">>, <<"l","o","v","e","s">>, <<"f","a","v","o","r","s">>>>],
  [key |-> <<"d","i","s","l","i","k","e","s">>, syn |-> <<<<"h","a","t","e","s">>, <<"a","v","o","i","d","s">>, <<"r","e","j","e","c","t","s">>, <<"o","p","p","o","s","e","s">>>>],
  [key |-> <<"w","a","n","t","s">>, syn |-> <<<<"n","e","e","d","s">>, <<"r","e","q","u","i","r","e","s">>, <<"d","e","s","i","r","e","s">>, <<"s","e","e","k","s">>>>],
  [key |-> <<"i","m","p","o","r","t","a","n","t">>, syn |-> <<<<"c","r","u","c","i","a","l">>, <<"v","i","t","a","l">>, <<"e","s","s","e","n","t","i","a","l">>, <<"c","r","i","t","i","c","a","l">>>>],
  [key |-> <<"p","r","o","b","l","e","m">>, syn |-> <<<<"i","s","s","u","e">>, <<"b","u","g">>, <<"e","r","r","o","r">>, <<"t","r","o","u","b","l","e">>>>],
  [key |-> <<"s","o","l","u","t","i","o","n">>, syn |-> <<<<"f","i","x">>, <<"a","n","s","w","e","r">>, <<"r","e","s","o","l","u","t","i","o","n">>, <<"r","e","m","e","d","y">>>>],
  [key |-> <<"f","a","s","t">>, syn |-> <<<<"q","u","i","c","k">>, <<"r","a","p","i","d">>, <<"s","p","e","e","d","y">>, <<"s","w","i","f","t">>>>],
  [key |-> <<"s","l","o","w">>, syn |-> <<<<"s","l","u","g","g","i","s","h">>, <<"d","e","l","a","y","e","d">>, <<"g","r","a","d","u","a","l">>>>],
  [key |-> <<"g","o","o","d">>, syn |-> <<<<"g","r","e","a","t">>, <<"e","x","c","e","l","l","e","n","t">>, <<"p","o","s","i","t","i","v","e">>, <<"b","e","n","e","f","i","c","i","a","l">>>>],
  [key |-> <<"b","a","d">>, syn |-> <<<<"p","o","o","r">>, <<"n","e","g","a","t","i","v","e">>, <<"t","e","r","r","i","b","l","e">>, <<"a","w","f","u","l">>>>] >>

stopWords == {
  <<"a">>, <<"a","n">>, <<"a","n","d">>, <<"a","r","e">>, <<"a","s">>, <<"a","t">>, <<"b","e">>, <<"b","y">>, <<"f","o","r">>, <<"f","r","o","m">>,
  <<"h","a","s">>, <<"h","e">>, <<"i","n">>, <<"i","s">>, <<"i","t">>, <<"i","t","s">>, <<"o","f">>, <<"o","n">>, <<"t","h","a","t">>, <<"t","h","e">>,
  <<"t","o">>, <<"w","a","s">>, <<"w","i","l","l">>, <<"w","i","t","h">>, <<"t","h","i","s">>, <<"b","u","t">>, <<"t","h","e","y">>, <<"h","a","v","e">>,
  <<"h","a","d">>, <<"w","h","a","t">>, <<"s","a","i","d">>, <<"e","a","c","h">>, <<"w","h","i","c","h">>, <<"d","o">>, <<"h","o","w">>, <<"t","h","e","i","r">>, <<"i","f">>,
  <<"u","p">>, <<"o","u","t">>, <<"m","a","n","y">>, <<"t","h","e","n">>, <<"t","h","e","m">>, <<"t","h","e","s","e">>, <<"s","o">>, <<"s","o","m","e">>, <<"h","e","r">>,
  <<"w","o","u","l","d">>, <<"m","a","k","e">>, <<"l","i","k","e">>, <<"i","n","t","o">>, <<"h","i","m">>, <<"t","i","m","e">>, <<"t","w","o">>, <<"m","o","r","e">>,
  <<"g","o">>, <<"n","o">>, <<"w","a","y">>, <<"c","o","u","l","d">>, <<"m","y">>, <<"t","h","a","n">>, <<"f","i","r","s","t">>, <<"b","e","e","n">>, <<"c","a","l","l">>,
  <<"w","h","o">>, <<"o","i","l">>, <<"s","i","t">>, <<"n","o","w">>, <<"f","i","n","d">>, <<"d","o","w","n">>, <<"d","a","y">>, <<"d","i","d">>, <<"g","e","t">>,
  <<"m","a","y">>, <<"n","e","w">>, <<"t","r","y">>, <<"c","a","m","e">>, <<"s","h","o","w">>, <<"e","v","e","r","y">>, <<"s","h","o","u","l","d">>, <<"t","h","o","u","g","h","t">> }

suffixes == <<<<"i","n","g">>, <<"e","d">>, <<"e","r">>, <<"e","s","t">>, <<"l","y">>, <<"t","i","o","n">>, <<"n","e","s","s">>, <<"m","e","n","t">>>>

----------------------------------------------------------------------------
(* Text normalizer                                                         *)

stemWord(word) ==
  LET hits == {k \in 1..Len(suffixes) :
                 endsWith(word, suffixes[k]) /\ Len(word) > Len(suffixes[k]) + 2}
  IN IF hits = {} THEN word
     ELSE LET k == CHOOSE h \in hits : \A g \in hits : h <= g
          IN SubSeq(word, 1, Len(word) - Len(suffixes[k]))

\* preprocessText without the stop-word test of the filter
preprocessTextKeepStops(text) ==
  LET lowered == toLowerCase(text)
      cleaned == [i \in 1..Len(lowered) |->
                    IF IsWordChar(lowered[i]) \/ IsSpace(lowered[i])
                    THEN lowered[i] ELSE " "]
      words == split(cleaned)
      kept == SelectSeq(words, LAMBDA w : Len(w) > 2)
  IN [i \in 1..Len(kept) |-> stemWord(kept[i])]

\* preprocessText with a filter that keeps the words of two characters
preprocessTextMinTwo(text) ==
  LET lowered == toLowerCase(text)
      cleaned == [i \in 1..Len(lowered) |->
                    IF IsWordChar(lowered[i]) \/ IsSpace(lowered[i])
                    THEN lowered[i] ELSE " "]
      words == split(cleaned)
      kept == SelectSeq(words, LAMBDA w : Len(w) > 1 /\ w \notin stopWords)
  IN [i \in 1..Len(kept) |-> stemWord(kept[i])]

preprocessText(text) ==
  LET lowered == toLowerCase(text)
      cleaned == [i \in 1..Len(lowered) |->
                    IF IsWordChar(lowered[i]) \/ IsSpace(lowered[i])
                    THEN lowered[i] ELSE " "]
      words == split(cleaned)
      kept == SelectSeq(words, LAMBDA w : Len(w) > 2 /\ w \notin stopWords)
  IN [i \in 1..Len(kept) |-> stemWord(kept[i])]

----------------------------------------------------------------------------
(* Exact rational arithmetic for the intermediate score                    *)

RECURSIVE GCD(_, _)
GCD(a, b) == IF b = 0 THEN a ELSE GCD(b, a % b)

Rat(n, d) == LET g == GCD(n, d) IN IF g = 0 THEN [n |-> 0, d |-> 1]
                                   ELSE [n |-> n \div g, d |-> d \div g]

RatAdd(x, y) == Rat(x.n * y.d + y.n * x.d, x.d * y.d)

RatLess(x, y) == x.n * y.d < y.n * x.d

RatMax(x, y) == IF RatLess(x, y) THEN y ELSE x

Zero == Rat(0, 1)

Min2(a, b) == IF a <= b THEN a ELSE b

Max2(a, b) == IF a >= b THEN a ELSE b

----------------------------------------------------------------------------
(* Scorer                                                                  *)

\* One row of the edit-distance matrix: cells 0..i of row j, given row j-1.
\* A row is a sequence whose element k+1 is the cell of column k.
RECURSIVE levRow(_, _, _, _, _)
levRow(str1, str2, j, prev, acc) ==
  LET i == Len(acc)
  IN IF i > Len(str1) THEN acc
     ELSE LET indicator == IF str1[i] = str2[j] THEN 0 ELSE 1
              cell == Min2(Min2(acc[i] + 1, prev[i + 1] + 1), prev[i] + indicator)
          IN levRow(str1, str2, j, prev, Append(acc, cell))

RECURSIVE levRows(_, _, _, _)
levRows(str1, str2, j, prev) ==
  IF j > Len(str2) THEN prev
  ELSE levRows(str1, str2, j + 1, levRow(str1, str2, j, prev, <<j>>))

levenshteinDistance(str1, str2) ==
  levRows(str1, str2, 1, [k \in 1..(Len(str1) + 1) |-> k - 1])[Len(str1) + 1]

getSynonymScore(queryTerm, contentTerms) ==
  IF \E e \in 1..Len(synonyms) :
        /\ queryTerm = synonyms[e].key \/ arrIncludes(synonyms[e].syn, queryTerm)
        /\ \E c \in 1..Len(contentTerms) :
              arrIncludes(<<synonyms[e].key>> \o synonyms[e].syn, contentTerms[c])
  THEN 3 ELSE 0

\* similarity * 2 of one content term, or 0 when it is below the threshold
fuzzyOf(queryTerm, contentTerm) ==
  LET distance == levenshteinDistance(queryTerm, contentTerm)
      maxLen == Max2(Len(queryTerm), Len(contentTerm))
  IN IF 10 * (maxLen - distance) > 7 * maxLen /\ maxLen > 3
     THEN Rat(2 * (maxLen - distance), maxLen) ELSE Zero

RECURSIVE fuzzyBest(_, _, _, _)
fuzzyBest(queryTerm, contentTerms, k, bestScore) ==
  IF k > Len(contentTerms) THEN bestScore
  ELSE fuzzyBest(queryTerm, contentTerms, k + 1,
                 RatMax(bestScore, fuzzyOf(queryTerm, contentTerms[k])))

getFuzzyScore(queryTerm, contentTerms) == fuzzyBest(queryTerm, contentTerms, 1, Zero)

contexts(queryTerm) ==
  << queryTerm \o <<" ","i","s">>, queryTerm \o <<" ","a","r","e">>, <<"t","h","e"," ">> \o queryTerm,
     <<"o","f"," ">> \o queryTerm, queryTerm \o <<" ","t","h","a","t">>, queryTerm \o <<" ","w","h","i","c","h">> >>

getContextScore(queryTerm, contentText) ==
  IF \E k \in 1..6 : strIncludes(contentText, contexts(queryTerm)[k]) THEN 1 ELSE 0

\* termScore with the weights of the exact and the partial strategy exchanged
termScoreSwapped(queryTerm, contentTerms, contentText) ==
  IF arrIncludes(contentTerms, queryTerm)
  THEN [via |-> "exact", value |-> Rat(5, 1)]
  ELSE IF \E k \in 1..Len(contentTerms) :
             \/ strIncludes(contentTerms[k], queryTerm)
             \/ strIncludes(queryTerm, contentTerms[k])
  THEN [via |-> "partial", value |-> Rat(10, 1)]
  ELSE [via |-> "none", value |-> Zero]

\* termScore with the fuzzy strategy tried before the partial one
termScoreFuzzyFirst(queryTerm, contentTerms, contentText) ==
  IF arrIncludes(contentTerms, queryTerm)
  THEN [via |-> "exact", value |-> Rat(10, 1)]
  ELSE IF RatLess(Zero, getFuzzyScore(queryTerm, contentTerms))
  THEN [via |-> "fuzzy", value |-> getFuzzyScore(queryTerm, contentTerms)]
  ELSE IF \E k \in 1..Len(contentTerms) :
             \/ strIncludes(contentTerms[k], queryTerm)
             \/ strIncludes(queryTerm, contentTerms[k])
  THEN [via |-> "partial", value |-> Rat(5, 1)]
  ELSE [via |-> "none", value |-> Zero]

\* termScore without the else branches: every strategy that applies adds its
\* value
termScoreAdditive(queryTerm, contentTerms, contentText) ==
  LET exact == IF arrIncludes(contentTerms, queryTerm) THEN 10 ELSE 0
      partial == IF \E k \in 1..Len(contentTerms) :
                       \/ strIncludes(contentTerms[k], queryTerm)
                       \/ strIncludes(queryTerm, contentTerms[k])
                 THEN 5 ELSE 0
      whole == exact + partial + getSynonymScore(queryTerm, contentTerms)
                 + getContextScore(queryTerm, contentText)
  IN [via |-> IF exact > 0 THEN "exact" ELSE IF partial > 0 THEN "partial" ELSE "other",
      value |-> RatAdd(Rat(whole, 1), getFuzzyScore(queryTerm, contentTerms))]

\* The body of the per-term loop: the strategy that scores the term and the
\* value it adds to score.
termScore(queryTerm, contentTerms, contentText) ==
  IF arrIncludes(contentTerms, queryTerm)
  THEN [via |-> "exact", value |-> Rat(10, 1)]
  ELSE IF \E k \in 1..Len(contentTerms) :
             \/ strIncludes(contentTerms[k], queryTerm)
             \/ strIncludes(queryTerm, contentTerms[k])
  THEN [via |-> "partial", value |-> Rat(5, 1)]
  ELSE IF getSynonymScore(queryTerm, contentTerms) > 0
  THEN [via |-> "synonym", value |-> Rat(getSynonymScore(queryTerm, contentTerms), 1)]
  ELSE IF RatLess(Zero, getFuzzyScore(queryTerm, contentTerms))
  THEN [via |-> "fuzzy", value |-> getFuzzyScore(queryTerm, contentTerms)]
  ELSE IF getContextScore(queryTerm, contentText) > 0
  THEN [via |-> "context", value |-> Rat(getContextScore(queryTerm, contentText), 1)]
  ELSE [via |-> "none", value |-> Zero]

\* the per-term contributions of a query against a content, in query order
termScores(queryTerms, content) ==
  LET contentTerms == preprocessText(content)
      contentText == toLowerCase(content)
  IN [k \in 1..Len(queryTerms) |-> termScore(queryTerms[k], contentTerms, contentText)]

RECURSIVE sumScores(_, _)
sumScores(scores, k) ==
  IF k = 0 THEN Zero ELSE RatAdd(sumScores(scores, k - 1), scores[k].value)

\* lengthBoost with the division applied after the maximum
lengthBoostZero(content) == Max2(0, 1 - Len(content))

\* lengthBoost with twice the weight
lengthBoostDouble(content) == 2 * Max2(0, 1000 - Len(content))

\* lengthBoost * 1000
lengthBoost(content) == Max2(0, 1000 - Len(content))

\* matchedTerms that also keeps a query term containing a content term
matchedTermsEither(queryTerms, contentTerms) ==
  {k \in 1..Len(queryTerms) :
     \/ arrIncludes(contentTerms, queryTerms[k])
     \/ \E c \in 1..Len(contentTerms) :
          \/ strIncludes(contentTerms[c], queryTerms[k])
          \/ strIncludes(queryTerms[k], contentTerms[c])}

matchedTerms(queryTerms, contentTerms) ==
  {k \in 1..Len(queryTerms) :
     \/ arrIncludes(contentTerms, queryTerms[k])
     \/ \E c \in 1..Len(contentTerms) : strIncludes(contentTerms[c], queryTerms[k])}

\* multiTermBoost * 100
multiTermBoost(queryTerms, contentTerms) ==
  LET n == Cardinality(matchedTerms(queryTerms, contentTerms))
  IN IF n > 1 THEN n * 50 ELSE 0

\* Math.round(score * 100), where score = sum * (1 + lengthBoost * 0.2) + boost
calculateRelevanceScore(queryTerms, content) ==
  LET contentTerms == preprocessText(content)
      score == sumScores(termScores(queryTerms, content), Len(queryTerms))
      scaled == 5000 + lengthBoost(content)
  IN ((2 * score.n * scaled + 50 * score.d) \div (100 * score.d))
       + multiTermBoost(queryTerms, contentTerms)

\* getMatchType with the fuzzy test ahead of the synonym test
getMatchTypeFuzzyFirst(queryTerms, content) ==
  LET contentTerms == preprocessText(content)
      exactMatches == {k \in 1..Len(queryTerms) : arrIncludes(contentTerms, queryTerms[k])}
  IN IF Cardinality(exactMatches) = Len(queryTerms) THEN "exact"
     ELSE IF Cardinality(exactMatches) > 0 THEN "partial"
     ELSE IF \E k \in 1..Len(queryTerms) :
                RatLess(Zero, getFuzzyScore(queryTerms[k], contentTerms)) THEN "fuzzy"
     ELSE IF \E k \in 1..Len(queryTerms) :
                getSynonymScore(queryTerms[k], contentTerms) > 0 THEN "semantic"
     ELSE "context"

getMatchType(queryTerms, content) ==
  LET contentTerms == preprocessText(content)
      exactMatches == {k \in 1..Len(queryTerms) : arrIncludes(contentTerms, queryTerms[k])}
  IN IF Cardinality(exactMatches) = Len(queryTerms) THEN "exact"
     ELSE IF Cardinality(exactMatches) > 0 THEN "partial"
     ELSE IF \E k \in 1..Len(queryTerms) :
                getSynonymScore(queryTerms[k], contentTerms) > 0 THEN "semantic"
     ELSE IF \E k \in 1..Len(queryTerms) :
                RatLess(Zero, getFuzzyScore(queryTerms[k], contentTerms)) THEN "fuzzy"
     ELSE "context"

----------------------------------------------------------------------------
(* Ranker                                                                  *)

PoolLimit == 50

\* slice with an inclusive end
sliceOffByOne(arr, end) == SubSeq(arr, 1, Min2(end + 1, Len(arr)))

\* Array.prototype.slice(0, end)
slice(arr, end) ==
  IF end >= 0 THEN SubSeq(arr, 1, Min2(end, Len(arr)))
  ELSE SubSeq(arr, 1, Max2(Len(arr) + end, 0))

\* ORDER BY created_at DESC over the rows of the table; SQLite delivers rows
\* with equal created_at in rowid order.
orderByCreatedAtDesc(db) ==
  LET before(a, b) == \/ a.created_at > b.created_at
                      \/ a.created_at = b.created_at /\ a.id < b.id
      pos(r) == 1 + Cardinality({o \in db : before(o, r)})
  IN [k \in 1..Cardinality(db) |-> CHOOSE r \in db : pos(r) = k]

\* LIMIT ?: a negative limit means no limit in SQLite
sqlLimit(rows, limit) == IF limit < 0 THEN rows ELSE SubSeq(rows, 1, Min2(limit, Len(rows)))

getAllMemories(db, limit) ==
  LET rows == sqlLimit(orderByCreatedAtDesc(db), limit)
  IN [k \in 1..Len(rows) |->
        [id |-> rows[k].id, content |-> rows[k].content, created_at |-> rows[k].created_at,
         relevanceScore |-> 100, matchType |-> "all"]]

\* the callback of allMemories.map
scoredResult(processedQuery, memory) ==
  [id |-> memory.id, content |-> memory.content, created_at |-> memory.created_at,
   relevanceScore |-> calculateRelevanceScore(processedQuery, memory.content),
   matchType |-> getMatchType(processedQuery, memory.content)]

\* a descending sort that puts an element before the ones equal to it
RECURSIVE sortByScoreTiesReversed(_)
sortByScoreTiesReversed(arr) ==
  IF Len(arr) <= 1 THEN arr
  ELSE LET front == sortByScoreTiesReversed(SubSeq(arr, 1, Len(arr) - 1))
           x == arr[Len(arr)]
           keep == Cardinality({k \in 1..Len(front) :
                                  front[k].relevanceScore > x.relevanceScore})
       IN SubSeq(front, 1, keep) \o <<x>> \o SubSeq(front, keep + 1, Len(front))

\* Array.prototype.sort((a, b) => b.relevanceScore - a.relevanceScore): a stable
\* sort, here by insertion of each element after the ones not smaller than it
RECURSIVE sortByScore(_)
sortByScore(arr) ==
  IF Len(arr) <= 1 THEN arr
  ELSE LET front == sortByScore(SubSeq(arr, 1, Len(arr) - 1))
           x == arr[Len(arr)]
           keep == Cardinality({k \in 1..Len(front) :
                                  front[k].relevanceScore >= x.relevanceScore})
       IN SubSeq(front, 1, keep) \o <<x>> \o SubSeq(front, keep + 1, Len(front))

\* rankMemories without the relevanceScore > 0 filter
rankMemoriesUnfiltered(query, limit, allMemories) ==
  IF Len(allMemories) = 0 THEN <<>>
  ELSE LET processedQuery == preprocessText(query)
           scoredResults == [k \in 1..Len(allMemories) |->
                               scoredResult(processedQuery, allMemories[k])]
       IN slice(sortByScore(scoredResults), limit)

\* the scored path of searchMemories, from the pool the store delivered
rankMemories(query, limit, allMemories) ==
  IF Len(allMemories) = 0 THEN <<>>
  ELSE LET processedQuery == preprocessText(query)
           scoredResults == [k \in 1..Len(allMemories) |->
                               scoredResult(processedQuery, allMemories[k])]
           positive == SelectSeq(scoredResults, LAMBDA r : r.relevanceScore > 0)
       IN slice(sortByScore(positive), limit)

\* the ALL test without toUpperCase
isAllCaseSensitive(query) == query = <<"A","L","L">>

isAll(query) == toUpperCase(query) = <<"A","L","L">>

\* fetchLimit without the bound of the pool: a negative LIMIT is no limit
fetchLimitNone(query, limit) == IF isAll(query) THEN limit ELSE 0 - 1

\* the limit searchMemories passes to getAllMemories
fetchLimit(query, limit) == IF isAll(query) THEN limit ELSE PoolLimit

searchMemories(db, query, limit) ==
  IF isAll(query) THEN getAllMemories(db, limit)
  ELSE rankMemories(query, limit, getAllMemories(db, PoolLimit))

----------------------------------------------------------------------------
(* State                                                                   *)

VARIABLES
  memories,   \* the rows of table memories: [id, content, created_at]
  lastID,     \* the AUTOINCREMENT counter of the table
  now,        \* CURRENT_TIMESTAMP, as the rank of the current second
  calls,      \* per caller, the searchMemories invocation in flight or returned
  probe,      \* scorer input: a query and candidate contents
  scored,     \* scorer output for probe
  tool,       \* per client, the tool call in flight or answered
  drafts,     \* the rows of table drafts of the drafting server
  files,      \* per output path, the text of the file written there
  draftCall   \* the last request to the drafting server, answered

vars == <<memories, lastID, now, calls, probe, scored, tool, drafts, files, draftCall>>

\* the largest number of rows the table holds in the model
MaxMem == 3

Callers == {1, 2}

\* the err argument of a db.all callback that reports no failure
NoError == "null"

\* failures the store can report to the db.all callback
DbErrors == {"SQLITE_BUSY", "SQLITE_CORRUPT"}

\* A call: pc is "idle", "fetch" (query issued to the store), "done" (promise
\* resolved with result) or "failed" (promise rejected with error); db is the
\* table the query ran against, pool the rows the store delivered, fetches the
\* number of db.all calls made, storeError the err the store handed to the
\* callback.
Idle == [pc |-> "idle", query |-> <<>>, limit |-> 0, db |-> {}, pool |-> <<>>,
         result |-> <<>>, fetches |-> 0, storeError |-> NoError, error |-> NoError]

NoProbe == [kind |-> "none", query |-> <<>>, contents |-> <<>>]

\* vocabulary of the engine specification
Contents == { <<"I"," ","l","i","k","e"," ","c","a","t","s">>, <<"m","y"," ","c","a","t"," ","s","l","e","e","p","s">>, <<"x","y","z","1","2","3">> }

Queries == { <<"A","L","L">>, <<"a","L","l">>, <<"c","a","t","s">>, <<"p","r","e","f","e","r","e","n","c","e","s">> }

ValidLimits == 1..5

Limits == -1..6

\* vocabulary of the interleaving specification
PairContents == { <<"I"," ","l","i","k","e"," ","c","a","t","s">>, <<"m","y"," ","c","a","t"," ","s","l","e","e","p","s">> }

PairQueries == { <<"a","l","l">>, <<"c","a","t","s">> }

PairLimits == {1, 2}

\* vocabulary of the pool specification: stores of up to MaxStore rows in
\* which one row holds the word cats
MaxStore == 52

PoolSizes == (MaxStore - 2)..MaxStore

PoolFiller == <<"x","y","z","1","2","3">>

PoolContent == <<"I"," ","l","i","k","e"," ","c","a","t","s">>

PoolQueries == { <<"c","a","t","s">>, <<"x","y","z","1","2","3">> }

PoolLimits == {1, 5}

\* the id of a write call that names none
NoId == 0

\* A tool call: pc is "idle", the store operation the handler awaits ("search",
\* "insert", "delete", "find", "remove") or "replied"; db is the table the last
\* store operation of the call ran against and after the table it left; found
\* is the result of the search of a DELETE without id; isError, reply, shown
\* and named are the response: its flag, its message, the records it lists and
\* the id it names.
ToolIdle == [pc |-> "idle", name |-> "none", text |-> <<>>, topr |-> 0,
             sTool |-> "none", id |-> NoId, db |-> {}, after |-> {},
             found |-> <<>>, isError |-> FALSE, reply |-> "none", shown |-> <<>>,
             named |-> NoId, storeError |-> NoError]

\* vocabulary of the tool specification
ToolContents == { <<"I"," ","l","i","k","e"," ","c","a","t","s">>, <<"m","y"," ","c","a","t"," ","s","l","e","e","p","s">> }

ToolQueries == { <<"c","a","t","s">>, <<"s","l","e","e","p","s">>, <<"x","y","z">>, <<"a","l","l">> }

ReadSearches == { <<"A","L","L">>, <<"c","a","t","s">> }

ToolIds == 1..MaxMem

\* vocabulary of the read-back specification: contents that are also used as
\* the search text of a read
EchoContents == { <<"I"," ","l","i","k","e"," ","c","a","t","s">>, <<"t","h","e"," ","o","x">>, <<"a","l","l">> }

\* vocabulary of the two-client tool specification
WriterContents == { <<"I"," ","l","i","k","e"," ","c","a","t","s">> }

WriterQueries == { <<"c","a","t","s">> }

----------------------------------------------------------------------------
(* Drafting server: content processor and factory                          *)

\* no type in a quill request
NoType == ""

NL == <<"\n">>

\* the decimal digit of a small number
digit(n) == <<<<"0","1","2","3","4","5","6","7","8","9">>[n + 1]>>

\* Date.prototype.toISOString of an instant, written as T and its rank
toISOString(t) == <<"T">> \o digit(t)

\* the grave accent U+0060, which no TLA+ string can hold, as one character
Grave == "U+0060"

\* the number of matches of the regex of three grave accents in content
RECURSIVE countFences(_)
countFences(content) ==
  IF Len(content) < 3 THEN 0
  ELSE IF SubSeq(content, 1, 3) = <<Grave, Grave, Grave>>
       THEN 1 + countFences(SubSeq(content, 4, Len(content)))
       ELSE countFences(SubSeq(content, 2, Len(content)))

\* MarkdownProcessor.validateContent: the error it throws, if any
validateContent(content) ==
  IF countFences(content) % 2 # 0 THEN "Content validation failed" ELSE NoError

typePriority(type) ==
  CASE type = "chapter" -> 1 [] type = "section" -> 2 [] type = "report" -> 3

typeText(type) ==
  CASE type = "chapter" -> <<"c","h","a","p","t","e","r">> [] type = "section" -> <<"s","e","c","t","i","o","n">>
    [] type = "report" -> <<"r","e","p","o","r","t">>

\* the comparator of the two sorts is not positive
draftLE(a, b) ==
  \/ typePriority(a.type) < typePriority(b.type)
  \/ typePriority(a.type) = typePriority(b.type) /\ a.version <= b.version

\* [...drafts].sort(by type priority, then version)
RECURSIVE sortDrafts(_)
sortDrafts(ds) ==
  IF ds = <<>> THEN <<>>
  ELSE LET init == sortDrafts(SubSeq(ds, 1, Len(ds) - 1))
           d == ds[Len(ds)]
           k == Cardinality({i \in 1..Len(init) : draftLE(init[i], d)})
       IN SubSeq(init, 1, k) \o <<d>> \o SubSeq(init, k + 1, Len(init))

\* the concatenation of the texts of a sequence
RECURSIVE joinAll(_)
joinAll(texts) == IF texts = <<>> THEN <<>> ELSE texts[1] \o joinAll(Tail(texts))

\* the TOC block of one type: heading and one entry per draft
tocGroup(type, heading, sorted) ==
  LET group == SelectSeq(sorted, LAMBDA d : d.type = type)
      indent == IF type = "chapter" THEN <<>> ELSE <<" "," ">>
  IN IF group = <<>> THEN <<>>
     ELSE <<"\n","#","#"," ">> \o heading \o <<"s","\n">>
          \o joinAll([k \in 1..Len(group) |-> indent \o <<"-"," ">> \o group[k].id \o NL])

\* MarkdownProcessor.generateTableOfContents (quill drafts carry no tags)
generateTableOfContents(ds) ==
  LET sorted == sortDrafts(ds)
  IN <<"#"," ","T","a","b","l","e"," ","o","f"," ","C","o","n","t","e","n","t","s","\n">>
     \o tocGroup("chapter", <<"C","h","a","p","t","e","r">>, sorted)
     \o tocGroup("section", <<"S","e","c","t","i","o","n">>, sorted)
     \o tocGroup("report", <<"R","e","p","o","r","t">>, sorted)

\* the sections formatContent pushes for one draft, each followed by the
\* separator of join
draftSections(d) ==
  LET header == CASE d.type = "chapter" -> <<"#"," ">> [] d.type = "section" -> <<"#","#"," ">>
                  [] d.type = "report" -> <<"#","#","#"," ">>
  IN header \o d.id \o NL \o NL
     \o <<"-","-","-">> \o NL
     \o <<"t","y","p","e",":"," ">> \o typeText(d.type) \o NL
     \o <<"v","e","r","s","i","o","n",":"," ">> \o digit(d.version) \o NL
     \o <<"c","r","e","a","t","e","d",":"," ">> \o toISOString(d.created_at) \o NL
     \o <<"u","p","d","a","t","e","d",":"," ">> \o toISOString(d.updated_at) \o NL
     \o (IF d.parent_id # <<>> THEN <<"p","a","r","e","n","t",":"," ">> \o d.parent_id \o NL ELSE <<>>)
     \o <<"-","-","-","\n">> \o NL
     \o d.content \o NL
     \o <<"\n","-","-","-","\n">> \o NL

\* MarkdownProcessor.formatContent: the error it throws or the text it returns
formatContent(ds, format) ==
  IF format # "md"
  THEN [error |-> "Invalid format for MarkdownProcessor", text |-> <<>>]
  ELSE LET sorted == sortDrafts(ds)
           joined == joinAll([k \in 1..Len(sorted) |-> draftSections(sorted[k])])
       IN [error |-> NoError,
           text |-> IF joined = <<>> THEN <<>> ELSE SubSeq(joined, 1, Len(joined) - 1)]

\* InkedFactory.createContentProcessor: the error it throws or the processor
createContentProcessor(format) ==
  CASE format = "md" -> [error |-> NoError, processor |-> "MarkdownProcessor"]
    [] format = "txt" -> [error |-> NoError, processor |-> "MarkdownProcessor"]
    [] format = "docx" -> [error |-> "DOCX format not yet implemented", processor |-> "none"]
    [] format = "pages" -> [error |-> "Pages format not yet implemented", processor |-> "none"]
    [] OTHER -> [error |-> "Unsupported output format", processor |-> "none"]

\* vocabulary of the drafting specification
DraftIds == { <<"c","h","1">>, <<"s","1">> }

DraftContents == { <<"p","l","a","i","n"," ","t","e","x","t">>, <<Grave, Grave, Grave>> \o <<"j","s">> }

QuillTypes == {"chapter", NoType}

ParentIds == { <<"b","o","o","k">> }

DraftInstants == {1, 2}

InkDraftIds == { << <<"c","h","1">> >>, << <<"s","1">>, <<"c","h","1">> >> }

InkFormats == {"md", "txt", "docx", "pages", "pdf"}

OutputPaths == {"out/book", "out/draft"}

\* the content of a path that holds no file
NoFile == <<>>

\* the last request to the drafting server: its handler, its arguments and
\* the error of its response, if any
DraftIdle == [name |-> "none", custom_id |-> <<>>, draft_ids |-> <<>>,
              format |-> "none", output_path |-> "none", error |-> NoError,
              text |-> <<>>]

\* vocabulary of the specification with store failures
FaultContents == { <<"t","h","e"," ","c","a","t"," ","s","l","e","e","p","s">>, <<"x","y","z","1","2","3">> }

FaultQueries == { <<>>, <<"t","h","e"," ","o","x">>, <<"c","a","t","s">>, <<"a","l","l">> }

FaultLimits == {2}

\* Probes of the scorer specification.
\* synonym: a query word and a content word from one key+synonyms set
synonymWords(e) == <<synonyms[e].key>> \o synonyms[e].syn

SynonymProbes ==
  UNION { { [kind |-> "synonym", query |-> pr[1], contents |-> <<pr[2]>>] :
            pr \in {x \in Range(synonymWords(e)) \X Range(synonymWords(e)) : x[1] # x[2]} } :
          e \in 1..Len(synonyms) }

PhraseProbes ==
  { [kind |-> "phrase", query |-> <<"s","e","t","t","i","n","g","s">>, contents |-> <<<<"m","y"," ","p","r","e","f","e","r","e","n","c","e","s"," ","a","r","e"," ","c","l","e","a","r">>>>],
    [kind |-> "phrase", query |-> <<"p","r","e","f","e","r","e","n","c","e","s">>, contents |-> <<<<"x","y","z","1","2","3">>>>],
    [kind |-> "phrase", query |-> <<"c","a","t","s">>, contents |-> <<<<"I"," ","l","i","k","e"," ","c","a","t","s">>, <<"I"," ","l","i","k","e"," ","d","o","g","s">>>>] }

\* fuzzy: a misspelt query against contents that hold the word process
FuzzyProbes ==
  { [kind |-> "fuzzy", query |-> q, contents |-> <<c>>] :
      q \in {<<"p","r","o","c","e","s">>, <<"p","r","o","s","e","s","s">>, <<"P","r","o","c","e","s">>},
      c \in {<<"p","r","o","c","e","s","s">>, <<"t","h","e"," ","p","r","o","c","e","s","s"," ","w","o","r","k","s">>, <<"P","r","o","c","e","s","s",":"," ","s","t","a","r","t","e","d",".">>} }

\* text extended to n characters by a filler that normalizes to no term
padTo(text, n) ==
  [i \in 1..n |-> IF i <= Len(text) THEN text[i]
                  ELSE IF (i - Len(text)) % 2 = 1 THEN " " ELSE "."]

LengthBases == { <<"I"," ","l","i","k","e"," ","c","a","t","s">>, <<"m","y"," ","c","a","t"," ","s","l","e","e","p","s">>, <<"t","h","e"," ","k","a","t","s">>,
                 <<"s","c","a","t","s"," ","d","o","g","s","l","e","d">>, <<"c","a","t"," ","d","o","g">> }

LengthQueries == { <<"c","a","t","s">>, <<"c","a","t","s"," ","d","o","g","s">>, <<"k","a","t","s">>, <<"p","r","e","f","e","r","e","n","c","e","s">> }

\* length: one candidate of 50 and one of 2000 characters
LengthProbes ==
  { [kind |-> "length", query |-> q, contents |-> <<padTo(s, 50), padTo(l, 2000)>>] :
      q \in LengthQueries, s \in LengthBases, l \in LengthBases }

\* strategy: queries whose terms are scored by different strategies, and
\* contents in which several strategies apply to one term
StrategyQueries ==
  { <<"c","a","t","e","g","o","r","y"," ","s","t","i","n","g"," ","f","i","x"," ","p","r","o","s","e","s","s"," ","x","y","z"," ","c","a","t","s">>, <<"s","t","i","n","g"," ","f","i","x"," ","p","r","o","s","e","s","s"," ","x","y","z">>,
    <<"c","a","t","s"," ","c","a","t","s">>, <<"c","a","t">>, <<"c","a","t","s"," ","d","o","g","s"," ","c","a","t","e","g","o","r","y">> }

StrategyContents ==
  { <<"c","a","t"," ","c","a","t","s"," ","r","e","m","e","d","y"," ","p","r","o","c","e","s","s"," ","t","e","s","t","i","n","g"," ","i","s"," ","f","u","n">>, <<"t","h","e"," ","c","a","t"," ","i","s"," ","i","n"," ","t","h","e"," ","s","c","a","t","t","e","r">>,
    <<"s","c","a","t","s"," ","d","o","g","s","l","e","d"," ","c","a","t">>, <<"x","y","z","1","2","3">> }

StrategyProbes ==
  { [kind |-> "strategy", query |-> q, contents |-> <<c>>] :
      q \in StrategyQueries, c \in StrategyContents }

\* empty: queries that normalize to no term
EmptyProbes ==
  { [kind |-> "empty", query |-> q, contents |-> <<c>>] :
      q \in { <<>>, <<"t","h","e"," ","o","x">>, <<"!","?">> }, c \in { <<"I"," ","l","i","k","e"," ","c","a","t","s">>, <<"t","h","e"," ","o","x">>, <<"x","y","z","1","2","3">> } }

\* rank: a query of one to four words against a short candidate that holds all
\* but the last word, which it holds with a letter appended, and a candidate of
\* 50 or 1000 characters that holds every word
RankWords == << <<"c","a","t","s">>, <<" ","d","o","g","s">>, <<" ","b","i","r","d","s">>, <<" ","f","i","s","h">> >>

rankQuery(n) == joinAll([i \in 1..n |-> RankWords[i]])

RankProbes ==
  { [kind |-> "rank", query |-> rankQuery(n),
     contents |-> <<rankQuery(n) \o <<"y">>, padTo(rankQuery(n), len)>>] :
      n \in 1..4, len \in {50, 1000} }

\* stem: query words that stemWord changes, some of them into a stop word
StemQueries ==
  { <<"s","t","i","n","g","e","r">>, <<"s","t","i","n","g">>, <<"s","h","o","w","i","n","g"," ","r","e","s","u","l","t","s">>, <<"T","h","e"," ","n","e","w","e","s","t"," ","o","x">> }

StemContents ==
  { <<"t","e","s","t","i","n","g"," ","i","s"," ","f","u","n">>, <<"t","h","e"," ","s","t","i","n","g","e","r"," ","i","s"," ","h","e","r","e">>, <<"S","h","o","w","i","n","g"," ","t","h","e"," ","r","e","s","u","l","t","s">> }

StemProbes ==
  { [kind |-> "stem", query |-> q, contents |-> <<c>>] :
      q \in StemQueries, c \in StemContents }

Probes == SynonymProbes \cup PhraseProbes \cup FuzzyProbes \cup LengthProbes
            \cup StrategyProbes \cup EmptyProbes \cup StemProbes \cup RankProbes

----------------------------------------------------------------------------
(* Operations                                                              *)

\* DatabaseManager.addMemory: INSERT INTO memories (content) VALUES (?); the
\* row is stamped with the current second, which is the second of the previous
\* insert or a later one.
AddMemory(content) ==
  /\ Cardinality(memories) < MaxMem
  /\ \E t \in (IF memories = {} THEN {now + 1} ELSE {now, now + 1}) :
       /\ now' = t
       /\ memories' = memories \cup
            {[id |-> lastID + 1, content |-> content, created_at |-> t]}
  /\ lastID' = lastID + 1
  /\ UNCHANGED <<calls, probe, scored, tool, drafts, files, draftCall>>

\* searchMemories is invoked and issues its query to the store
SearchCall(p, query, limit) ==
  /\ calls[p].pc # "fetch"
  /\ calls' = [calls EXCEPT ![p] = [Idle EXCEPT !.pc = "fetch", !.query = query,
                                                 !.limit = limit, !.fetches = 1]]
  /\ UNCHANGED <<memories, lastID, now, probe, scored, tool, drafts, files, draftCall>>

\* SearchReturn with the query kept in a field shared by all invocations: the
\* query of a search still in flight replaces the caller's own
SearchReturnShared(p) ==
  /\ calls[p].pc = "fetch"
  /\ LET c == calls[p]
         others == {o \in Callers \ {p} : calls[o].pc = "fetch"}
         query == IF others = {} THEN c.query ELSE calls[CHOOSE o \in others : TRUE].query
         pool == getAllMemories(memories, fetchLimit(query, c.limit))
         result == IF isAll(query) THEN pool ELSE rankMemories(query, c.limit, pool)
     IN calls' = [calls EXCEPT ![p] = [c EXCEPT !.pc = "done", !.db = memories,
                                                !.pool = pool, !.result = result]]
  /\ UNCHANGED <<memories, lastID, now, probe, scored, tool, drafts, files, draftCall>>

\* SearchReturn that stamps the rows it returns with the current second
SearchReturnTouch(p) ==
  /\ calls[p].pc = "fetch"
  /\ LET c == calls[p]
         pool == getAllMemories(memories, fetchLimit(c.query, c.limit))
         result == IF isAll(c.query) THEN pool ELSE rankMemories(c.query, c.limit, pool)
         shown == {result[k].id : k \in 1..Len(result)}
     IN /\ calls' = [calls EXCEPT ![p] = [c EXCEPT !.pc = "done", !.db = memories,
                                                   !.pool = pool, !.result = result]]
        /\ memories' = {IF r.id \in shown THEN [r EXCEPT !.created_at = now] ELSE r :
                          r \in memories}
  /\ UNCHANGED <<lastID, now, probe, scored, tool, drafts, files, draftCall>>

\* the store runs the query and searchMemories computes its result from the rows
SearchReturn(p) ==
  /\ calls[p].pc = "fetch"
  /\ LET c == calls[p]
         pool == getAllMemories(memories, fetchLimit(c.query, c.limit))
         result == IF isAll(c.query) THEN pool ELSE rankMemories(c.query, c.limit, pool)
     IN calls' = [calls EXCEPT ![p] = [c EXCEPT !.pc = "done", !.db = memories,
                                                !.pool = pool, !.result = result]]
  /\ UNCHANGED <<memories, lastID, now, probe, scored, tool, drafts, files, draftCall>>

\* SearchFail with the failure caught and an empty result returned in its place
SearchFailMasked(p, err) ==
  /\ calls[p].pc = "fetch"
  /\ calls' = [calls EXCEPT ![p] = [@ EXCEPT !.pc = "done", !.db = memories,
                                              !.storeError = err]]
  /\ UNCHANGED <<memories, lastID, now, probe, scored, tool, drafts, files, draftCall>>

\* the store reports err to the db.all callback: getAllMemories rejects with
\* err, and the rejection leaves searchMemories through return or await
SearchFail(p, err) ==
  /\ calls[p].pc = "fetch"
  /\ calls' = [calls EXCEPT ![p] = [@ EXCEPT !.pc = "failed", !.db = memories,
                                              !.storeError = err, !.error = err]]
  /\ UNCHANGED <<memories, lastID, now, probe, scored, tool, drafts, files, draftCall>>

\* DELETE FROM memories WHERE id <= ?
deleteMemoryUpTo(db, id) == {r \in db : r.id > id}

\* DatabaseManager.deleteMemory: DELETE FROM memories WHERE id = ?
deleteMemory(db, id) == {r \in db : r.id # id}

\* this.changes > 0 of the DELETE statement
deleted(db, id) == \E r \in db : r.id = id

\* handleReadTool is invoked and awaits searchMemories(search, topr)
ReadCall(p, search, topr) ==
  /\ tool[p].pc \in {"idle", "replied"}
  /\ tool' = [tool EXCEPT ![p] = [ToolIdle EXCEPT !.pc = "search", !.name = "read",
                                                  !.text = search, !.topr = topr]]
  /\ UNCHANGED <<memories, lastID, now, calls, probe, scored, drafts, files, draftCall>>

\* ReadReply with one record fewer than topr asked for
ReadReplyShort(p) ==
  /\ tool[p].pc = "search"
  /\ LET searchResults == searchMemories(memories, tool[p].text, tool[p].topr - 1)
     IN tool' = [tool EXCEPT ![p] =
                   [@ EXCEPT !.pc = "replied", !.db = memories, !.after = memories,
                             !.shown = searchResults,
                             !.reply = IF Len(searchResults) = 0
                                       THEN "No memories found" ELSE "Found"]]
  /\ UNCHANGED <<memories, lastID, now, calls, probe, scored, drafts, files, draftCall>>

\* the search of handleReadTool returns and the response lists its records
ReadReply(p) ==
  /\ tool[p].pc = "search"
  /\ LET searchResults == searchMemories(memories, tool[p].text, tool[p].topr)
     IN tool' = [tool EXCEPT ![p] =
                   [@ EXCEPT !.pc = "replied", !.db = memories, !.after = memories,
                             !.shown = searchResults,
                             !.reply = IF Len(searchResults) = 0
                                       THEN "No memories found" ELSE "Found"]]
  /\ UNCHANGED <<memories, lastID, now, calls, probe, scored, drafts, files, draftCall>>

\* handleWriteTool is invoked and awaits its first store operation: addMemory
\* for NEW, deleteMemory for DELETE with an id, searchMemories(content, 1) for
\* DELETE without one. At most MaxMem rows are ever inserted.
WriteCall(p, content, sTool, id) ==
  /\ tool[p].pc \in {"idle", "replied"}
  /\ sTool = "NEW" => lastID < MaxMem
  /\ tool' = [tool EXCEPT ![p] =
                [ToolIdle EXCEPT !.pc = IF sTool = "NEW" THEN "insert"
                                        ELSE IF id # NoId THEN "delete" ELSE "find",
                                 !.name = "write", !.text = content,
                                 !.sTool = sTool, !.id = id]]
  /\ UNCHANGED <<memories, lastID, now, calls, probe, scored, drafts, files, draftCall>>

\* NEW: the INSERT runs and the response names the new id
WriteInsert(p) ==
  /\ tool[p].pc = "insert"
  /\ \E t \in (IF memories = {} THEN {now + 1} ELSE {now, now + 1}) :
       /\ now' = t
       /\ memories' = memories \cup
            {[id |-> lastID + 1, content |-> tool[p].text, created_at |-> t]}
  /\ lastID' = lastID + 1
  /\ tool' = [tool EXCEPT ![p] =
                [@ EXCEPT !.pc = "replied", !.db = memories, !.after = memories',
                          !.reply = "saved", !.named = lastID + 1]]
  /\ UNCHANGED <<calls, probe, scored, drafts, files, draftCall>>

\* DELETE with an id: the DELETE statement runs
WriteDelete(p) ==
  /\ tool[p].pc = "delete"
  /\ memories' = deleteMemory(memories, tool[p].id)
  /\ tool' = [tool EXCEPT ![p] =
                [@ EXCEPT !.pc = "replied", !.db = memories, !.after = memories',
                          !.isError = ~deleted(memories, tool[p].id),
                          !.reply = IF deleted(memories, tool[p].id)
                                    THEN "deleted" ELSE "No memory found with ID",
                          !.named = tool[p].id]]
  /\ UNCHANGED <<lastID, now, calls, probe, scored, drafts, files, draftCall>>

\* WriteFind that selects the most recent row in place of the best match
WriteFindRecent(p) ==
  /\ tool[p].pc = "find"
  /\ LET searchResults == getAllMemories(memories, 1)
     IN tool' = [tool EXCEPT ![p] =
                   IF Len(searchResults) = 0
                   THEN [@ EXCEPT !.pc = "replied", !.db = memories, !.after = memories,
                                  !.isError = TRUE, !.reply = "No memory found matching"]
                   ELSE [@ EXCEPT !.pc = "remove", !.db = memories, !.after = memories,
                                  !.found = searchResults]]
  /\ UNCHANGED <<memories, lastID, now, calls, probe, scored, drafts, files, draftCall>>

\* DELETE without an id: searchMemories(content, 1) returns; with no result the
\* response is an error, otherwise the handler awaits deleteMemory of the first
WriteFind(p) ==
  /\ tool[p].pc = "find"
  /\ LET searchResults == searchMemories(memories, tool[p].text, 1)
     IN tool' = [tool EXCEPT ![p] =
                   IF Len(searchResults) = 0
                   THEN [@ EXCEPT !.pc = "replied", !.db = memories, !.after = memories,
                                  !.isError = TRUE, !.reply = "No memory found matching"]
                   ELSE [@ EXCEPT !.pc = "remove", !.db = memories, !.after = memories,
                                  !.found = searchResults]]
  /\ UNCHANGED <<memories, lastID, now, calls, probe, scored, drafts, files, draftCall>>

\* WriteRemove that answers with success whatever the DELETE statement changed
WriteRemoveBlind(p) ==
  /\ tool[p].pc = "remove"
  /\ LET memoryToDelete == tool[p].found[1]
     IN /\ memories' = deleteMemory(memories, memoryToDelete.id)
        /\ tool' = [tool EXCEPT ![p] =
                      [@ EXCEPT !.pc = "replied", !.db = memories, !.after = memories',
                                !.isError = FALSE, !.reply = "Found and deleted",
                                !.named = memoryToDelete.id]]
  /\ UNCHANGED <<lastID, now, calls, probe, scored, drafts, files, draftCall>>

\* DELETE without an id: the DELETE statement for the selected memory runs
WriteRemove(p) ==
  /\ tool[p].pc = "remove"
  /\ LET memoryToDelete == tool[p].found[1]
     IN /\ memories' = deleteMemory(memories, memoryToDelete.id)
        /\ tool' = [tool EXCEPT ![p] =
                      [@ EXCEPT !.pc = "replied", !.db = memories, !.after = memories',
                                !.isError = ~deleted(memories, memoryToDelete.id),
                                !.reply = IF deleted(memories, memoryToDelete.id)
                                          THEN "Found and deleted" ELSE "Failed to delete",
                                !.named = memoryToDelete.id]]
  /\ UNCHANGED <<lastID, now, calls, probe, scored, drafts, files, draftCall>>

\* the store operation a tool handler awaits fails: the catch block answers
\* with an error response
ToolFail(p, err) ==
  /\ tool[p].pc \in {"search", "insert", "delete", "find", "remove"}
  /\ tool' = [tool EXCEPT ![p] =
                [@ EXCEPT !.pc = "replied", !.db = memories, !.after = memories,
                          !.isError = TRUE, !.reply = "Error", !.storeError = err]]
  /\ UNCHANGED <<memories, lastID, now, calls, probe, scored, drafts, files, draftCall>>

\* the draft rows of the given ids, in the order of the ids
getDrafts(db, draft_ids) ==
  [k \in 1..Len(draft_ids) |-> CHOOSE d \in db : d.id = draft_ids[k]]

\* InkedServer.handleQuillDraft: createDraft inserts the row unless the id is
\* taken, then the server's processor validates the content; either failure
\* becomes the error of the response
handleQuillDraft(custom_id, content, type, parent_id, created, updated) ==
  LET draft == [id |-> custom_id, content |-> content,
                type |-> IF type # NoType THEN type ELSE "section",
                version |-> 1, created_at |-> created, updated_at |-> updated,
                parent_id |-> parent_id]
      taken == \E d \in drafts : d.id = custom_id
  IN /\ created <= updated
     /\ drafts' = IF taken THEN drafts ELSE drafts \cup {draft}
     /\ draftCall' = [DraftIdle EXCEPT
                        !.name = "quill", !.custom_id = custom_id, !.text = content,
                        !.error = IF taken THEN "Failed to create draft"
                                  ELSE validateContent(content)]
     /\ UNCHANGED <<memories, lastID, now, calls, probe, scored, tool, files>>

\* InkedServer.handleInkContent: fetch the drafts, create the processor,
\* generate the table of contents and the content, write the file; written
\* tells whether mkdir and writeFile succeed
handleInkContent(draft_ids, format, output_path, written) ==
  LET missing == \E k \in 1..Len(draft_ids) : \A d \in drafts : d.id # draft_ids[k]
      made == createContentProcessor(format)
      ds == getDrafts(drafts, draft_ids)
      toc == generateTableOfContents(ds)
      content == formatContent(ds, format)
      fullContent == toc \o NL \o NL \o content.text
      error == IF missing THEN "Draft not found"
               ELSE IF made.error # NoError THEN made.error
               ELSE IF content.error # NoError THEN content.error
               ELSE IF ~written THEN "EACCES"
               ELSE NoError
  IN /\ files' = IF error = NoError THEN [files EXCEPT ![output_path] = fullContent]
                 ELSE files
     /\ draftCall' = [DraftIdle EXCEPT
                        !.name = "ink", !.draft_ids = draft_ids, !.format = format,
                        !.output_path = output_path, !.error = error,
                        !.text = IF error = NoError THEN fullContent ELSE <<>>]
     /\ UNCHANGED <<memories, lastID, now, calls, probe, scored, tool, drafts>>

\* calculateRelevanceScore and getMatchType applied to the probe: per candidate
\* the per-term contributions, the final score and the label
ScoreProbe ==
  /\ probe.kind # "none"
  /\ scored = <<>>
  /\ scored' = [k \in 1..Len(probe.contents) |->
                  [queryTerms |-> preprocessText(probe.query),
                   contentTerms |-> preprocessText(probe.contents[k]),
                   terms |-> termScores(preprocessText(probe.query), probe.contents[k]),
                   relevanceScore |-> calculateRelevanceScore(preprocessText(probe.query),
                                                              probe.contents[k]),
                   matchType |-> getMatchType(preprocessText(probe.query),
                                              probe.contents[k])]]
  /\ UNCHANGED <<memories, lastID, now, calls, probe, tool, drafts, files, draftCall>>

----------------------------------------------------------------------------
(* Specifications                                                          *)

Init ==
  /\ memories = {}
  /\ lastID = 0
  /\ now = 0
  /\ calls = [p \in Callers |-> Idle]
  /\ probe = NoProbe
  /\ scored = <<>>
  /\ tool = [p \in Callers |-> ToolIdle]
  /\ drafts = {}
  /\ files = [path \in OutputPaths |-> NoFile]
  /\ draftCall = DraftIdle

\* the engine over a growing store, one caller
Next ==
  \/ \E content \in Contents : AddMemory(content)
  \/ \E query \in Queries, limit \in Limits : SearchCall(1, query, limit)
  \/ SearchReturn(1)

Spec == Init /\ [][Next]_vars

\* two callers whose searches interleave with each other and with inserts
NextPair ==
  \/ \E content \in PairContents : AddMemory(content)
  \/ \E p \in Callers, query \in PairQueries, limit \in PairLimits :
        SearchCall(p, query, limit)
  \/ \E p \in Callers : SearchReturn(p)

SpecPair == Init /\ [][NextPair]_vars

\* two callers over a store whose queries can fail
NextFaults ==
  \/ \E content \in FaultContents : AddMemory(content)
  \/ \E p \in Callers, query \in FaultQueries, limit \in FaultLimits :
        SearchCall(p, query, limit)
  \/ \E p \in Callers : SearchReturn(p)
  \/ \E p \in Callers, err \in DbErrors : SearchFail(p, err)

SpecFaults == Init /\ [][NextFaults]_vars

\* one client of the read and write tools over a store that can fail
NextTools ==
  \/ \E search \in ReadSearches, topr \in ValidLimits : ReadCall(1, search, topr)
  \/ ReadReply(1)
  \/ \E content \in ToolContents : WriteCall(1, content, "NEW", NoId)
  \/ \E content \in ToolQueries, id \in ToolIds \cup {NoId} :
        WriteCall(1, content, "DELETE", id)
  \/ WriteInsert(1)
  \/ WriteDelete(1)
  \/ WriteFind(1)
  \/ WriteRemove(1)
  \/ \E err \in DbErrors : ToolFail(1, err)

SpecTools == Init /\ [][NextTools]_vars

\* one client that stores memories and reads them back by their content
NextEcho ==
  \/ \E content \in EchoContents : WriteCall(1, content, "NEW", NoId)
  \/ WriteInsert(1)
  \/ \E content \in EchoContents, id \in ToolIds : WriteCall(1, content, "DELETE", id)
  \/ WriteDelete(1)
  \/ \E search \in EchoContents, topr \in ValidLimits : ReadCall(1, search, topr)
  \/ ReadReply(1)

SpecEcho == Init /\ [][NextEcho]_vars

\* two clients whose write calls interleave at the awaited store operations
NextWriters ==
  \/ \E p \in Callers, content \in WriterContents : WriteCall(p, content, "NEW", NoId)
  \/ \E p \in Callers, content \in WriterQueries, id \in ToolIds \cup {NoId} :
        WriteCall(p, content, "DELETE", id)
  \/ \E p \in Callers : WriteInsert(p)
  \/ \E p \in Callers : WriteDelete(p)
  \/ \E p \in Callers : WriteFind(p)
  \/ \E p \in Callers : WriteRemove(p)

SpecWriters == Init /\ [][NextWriters]_vars

\* the drafting server and its one client
NextDrafts ==
  \/ \E custom_id \in DraftIds, content \in DraftContents, type \in QuillTypes,
        parent_id \in ParentIds, created \in DraftInstants, updated \in DraftInstants :
        handleQuillDraft(custom_id, content, type, parent_id, created, updated)
  \/ \E draft_ids \in InkDraftIds, format \in InkFormats, output_path \in OutputPaths,
        written \in BOOLEAN :
        handleInkContent(draft_ids, format, output_path, written)

SpecDrafts == Init /\ [][NextDrafts]_vars

\* a table of n rows inserted one after the other, one per second or two per
\* second, of which row j holds PoolContent
poolStore(n, j, perSecond) ==
  { [id |-> i, content |-> IF i = j THEN PoolContent ELSE PoolFiller,
     created_at |-> (i + perSecond - 1) \div perSecond] : i \in 1..n }

InitPool ==
  /\ \E n \in PoolSizes, perSecond \in {1, 2} : \E j \in 1..n :
       /\ memories = poolStore(n, j, perSecond)
       /\ lastID = n
       /\ now = (n + perSecond - 1) \div perSecond
  /\ calls = [p \in Callers |-> Idle]
  /\ probe = NoProbe
  /\ scored = <<>>
  /\ tool = [p \in Callers |-> ToolIdle]
  /\ drafts = {}
  /\ files = [path \in OutputPaths |-> NoFile]
  /\ draftCall = DraftIdle

\* searches over a store that holds more rows than the pool
NextPool ==
  \/ \E query \in PoolQueries, limit \in PoolLimits : SearchCall(1, query, limit)
  \/ SearchReturn(1)

SpecPool == InitPool /\ [][NextPool]_vars

\* the scorer as a function of its inputs
InitScorer ==
  /\ memories = {}
  /\ lastID = 0
  /\ now = 0
  /\ calls = [p \in Callers |-> Idle]
  /\ probe \in Probes
  /\ scored = <<>>
  /\ tool = [p \in Callers |-> ToolIdle]
  /\ drafts = {}
  /\ files = [path \in OutputPaths |-> NoFile]
  /\ draftCall = DraftIdle

NextScorer == ScoreProbe

SpecScorer == InitScorer /\ [][NextScorer]_vars

----------------------------------------------------------------------------
(* Properties                                                              *)

\* the returned calls of the engine
Done == {p \in Callers : calls[p].pc = "done"}

\* spellings of the ALL query in the vocabularies
AllSpellings == { <<"A","L","L">>, <<"a","L","l">>, <<"a","l","l">> }

\* the table row a result record was made from
rowOf(r) == [id |-> r.id, content |-> r.content, created_at |-> r.created_at]

ids(records) == {records[k].id : k \in 1..Len(records)}

\* the score of a pool entry for a query
scoreIn(query, memory) == calculateRelevanceScore(preprocessText(query), memory.content)

\* C1: for a limit in 1..5, a query that case-insensitively equals ALL returns
\* exactly min(limit, number of stored records) records, the most recent ones,
\* most recent first by created_at, each with relevanceScore 1.0 and matchType
\* "all", whatever their content.
AllBypass ==
  \A p \in Done :
    (calls[p].query \in AllSpellings /\ calls[p].limit \in ValidLimits) =>
      LET r == calls[p].result
          db == calls[p].db
      IN /\ Len(r) = Min2(calls[p].limit, Cardinality(db))
         /\ \A k \in 1..Len(r) :
              /\ r[k].relevanceScore = 100
              /\ r[k].matchType = "all"
              /\ rowOf(r[k]) \in db
         /\ \A j, k \in 1..Len(r) :
              j < k => r[j].created_at >= r[k].created_at /\ r[j].id # r[k].id
         /\ \A m \in db : m.id \notin ids(r) =>
              \A k \in 1..Len(r) : r[k].created_at >= m.created_at

\* an ALL query in mixed case cut a store of three to two, among them a record
\* no word of which relates to the query
AllBypassWitness ==
  /\ calls[1].pc = "done"
  /\ calls[1].query = <<"a","L","l">>
  /\ calls[1].limit = 2
  /\ Cardinality(calls[1].db) = 3
  /\ Len(calls[1].result) = 2
  /\ calls[1].result[1].created_at > calls[1].result[2].created_at
  /\ \E k \in 1..2 : calls[1].result[k].content = <<"x","y","z","1","2","3">>

\* C2: for a query other than ALL every computed score is >= 0, every returned
\* record has a score > 0, and a candidate to which no query term relates by
\* any strategy is not returned.
ZeroScoreFiltered ==
  \A p \in Done :
    calls[p].query \notin AllSpellings =>
      LET c == calls[p] IN
      /\ \A k \in 1..Len(c.result) : c.result[k].relevanceScore > 0
      /\ \A k \in 1..Len(c.pool) :
           /\ scoreIn(c.query, c.pool[k]) >= 0
           /\ (\A t \in Range(termScores(preprocessText(c.query), c.pool[k].content)) :
                  t.via = "none")
                => c.pool[k].id \notin ids(c.result)

\* the query preferences over a store whose only record is xyz123 returned nothing
ZeroScoreFilteredWitness ==
  /\ calls[1].pc = "done"
  /\ calls[1].query = <<"p","r","e","f","e","r","e","n","c","e","s">>
  /\ calls[1].limit \in ValidLimits
  /\ Len(calls[1].pool) = 1
  /\ calls[1].pool[1].content = <<"x","y","z","1","2","3">>
  /\ calls[1].result = <<>>

\* position of a record in the pool
poolPos(pool, id) == CHOOSE k \in 1..Len(pool) : pool[k].id = id

\* C3: for a query other than ALL the result is in non-increasing score order
\* and records of equal score keep the relative order they had in the pool.
SortedStable ==
  \A p \in Done :
    calls[p].query \notin AllSpellings =>
      LET c == calls[p] IN
      \A j, k \in 1..Len(c.result) :
        j < k =>
          /\ c.result[j].relevanceScore >= c.result[k].relevanceScore
          /\ c.result[j].relevanceScore = c.result[k].relevanceScore
               => poolPos(c.pool, c.result[j].id) < poolPos(c.pool, c.result[k].id)

\* two records of equal score were moved in front of a more recent record of
\* lower score
SortedStableWitness ==
  /\ calls[1].pc = "done"
  /\ calls[1].query \notin AllSpellings
  /\ Len(calls[1].result) = 3
  /\ calls[1].result[1].relevanceScore = calls[1].result[2].relevanceScore
  /\ calls[1].result[2].relevanceScore > calls[1].result[3].relevanceScore
  /\ calls[1].pool[1].id = calls[1].result[3].id

\* the number of pool entries with a nonzero score
nonzero(query, pool) == Cardinality({k \in 1..Len(pool) : scoreIn(query, pool[k]) # 0})

\* C4: for a limit in 1..5 the result is never longer than limit; for a query
\* other than ALL its length is the minimum of limit and the number of pool
\* entries with a nonzero score.
LimitBound ==
  \A p \in Done :
    calls[p].limit \in ValidLimits =>
      /\ Len(calls[p].result) <= calls[p].limit
      /\ calls[p].query \notin AllSpellings =>
           Len(calls[p].result) = Min2(calls[p].limit, nonzero(calls[p].query, calls[p].pool))

\* a scored query with limit 2 over a pool with three nonzero candidates
LimitBoundWitness ==
  /\ calls[1].pc = "done"
  /\ calls[1].query \notin AllSpellings
  /\ calls[1].limit = 2
  /\ nonzero(calls[1].query, calls[1].pool) = 3
  /\ Len(calls[1].result) = 2

\* the limit clamped into 1..5
clampLimit(limit) == Max2(1, Min2(5, limit))

\* C5: a call with a limit outside 1..5 is rejected or answered as with the
\* limit clamped into 1..5.
LimitClampedOrRejected ==
  \A p \in Callers :
    (calls[p].pc \in {"done", "rejected"} /\ calls[p].limit \notin ValidLimits) =>
      \/ calls[p].pc = "rejected"
      \/ calls[p].result = searchMemories(calls[p].db, calls[p].query,
                                          clampLimit(calls[p].limit))

termsOf(text) == Range(preprocessText(text))

\* C7: for a query with a single normalized term, a candidate whose content
\* terms contain the term scores strictly higher than a candidate whose terms
\* do not, comes before it in the result, and is labelled "exact".
ExactDominance ==
  \A p \in Done :
    (calls[p].query \notin AllSpellings /\ Len(preprocessText(calls[p].query)) = 1) =>
      LET c == calls[p]
          term == preprocessText(c.query)[1]
      IN \A a, b \in 1..Len(c.pool) :
           (term \in termsOf(c.pool[a].content) /\ term \notin termsOf(c.pool[b].content)) =>
             /\ scoreIn(c.query, c.pool[a]) > scoreIn(c.query, c.pool[b])
             /\ \A k \in 1..Len(c.result) :
                  c.result[k].id = c.pool[b].id =>
                    \E j \in 1..(k - 1) : c.result[j].id = c.pool[a].id
             /\ \A k \in 1..Len(c.result) :
                  c.result[k].id = c.pool[a].id => c.result[k].matchType = "exact"

\* the query cats ranked "I like cats" before the more recent "my cat sleeps"
\* and left out the unrelated record
ExactDominanceWitness ==
  /\ calls[1].pc = "done"
  /\ calls[1].query = <<"c","a","t","s">>
  /\ Len(calls[1].pool) = 3
  /\ calls[1].pool[1].content = <<"m","y"," ","c","a","t"," ","s","l","e","e","p","s">>
  /\ \E k \in 1..3 : calls[1].pool[k].content = <<"x","y","z","1","2","3">>
  /\ Len(calls[1].result) = 2
  /\ calls[1].result[1].content = <<"I"," ","l","i","k","e"," ","c","a","t","s">>
  /\ calls[1].result[1].matchType = "exact"
  /\ calls[1].result[2].content = <<"m","y"," ","c","a","t"," ","s","l","e","e","p","s">>

\* C8: a query word and a content word of one key+synonyms set, neither a
\* substring of the other, score > 0 with matchType "semantic", whichever of
\* the two is the query.
SynonymSymmetry ==
  (probe.kind = "synonym" /\ scored # <<>>) =>
    LET a == probe.query
        b == probe.contents[1]
    IN (~strIncludes(a, b) /\ ~strIncludes(b, a)) =>
         /\ scored[1].relevanceScore > 0
         /\ scored[1].matchType = "semantic"

\* the probes whose query lower-cases to proces
IsProces(query) == toLowerCase(query) = <<"p","r","o","c","e","s">>

\* C9: the query proces against content whose terms contain process gets a
\* nonzero fuzzy contribution, 2 x similarity, and the label "fuzzy".
FuzzyTolerance ==
  (probe.kind = "fuzzy" /\ scored # <<>> /\ IsProces(probe.query)
     /\ <<"p","r","o","c","e","s","s">> \in termsOf(probe.contents[1])) =>
    /\ scored[1].terms[1].via = "fuzzy"
    /\ scored[1].terms[1].value = Rat(2 * 6, 7)
    /\ scored[1].matchType = "fuzzy"

\* C9 as amended: the query proces against content whose terms contain process
\* gets the partial contribution 5, proces being a substring of process, and
\* no fuzzy contribution; the label is "fuzzy".
FuzzyLabelPartialScore ==
  (probe.kind = "fuzzy" /\ scored # <<>> /\ IsProces(probe.query)
     /\ <<"p","r","o","c","e","s","s">> \in termsOf(probe.contents[1])) =>
    /\ Len(scored[1].terms) = 1
    /\ scored[1].terms[1].via = "partial"
    /\ scored[1].terms[1].value = Rat(5, 1)
    /\ scored[1].relevanceScore > 0
    /\ scored[1].matchType = "fuzzy"

\* proces was scored against "the process works"
FuzzyLabelPartialScoreWitness ==
  /\ probe.kind = "fuzzy"
  /\ probe.query = <<"p","r","o","c","e","s">>
  /\ probe.contents = <<<<"t","h","e"," ","p","r","o","c","e","s","s"," ","w","o","r","k","s">>>>
  /\ scored # <<>>
  /\ scored[1].matchType = "fuzzy"

\* the per-term contributions of a scored candidate
contributions(s) == [k \in 1..Len(s.terms) |-> s.terms[k].value]

\* C10: of two candidates with identical per-term contributions, one of 50
\* and one of 2000 characters, the one of 50 has the strictly higher score.
LengthBoostStrict ==
  (probe.kind = "length" /\ scored # <<>>
     /\ contributions(scored[1]) = contributions(scored[2])) =>
    scored[1].relevanceScore > scored[2].relevanceScore

\* C10 as amended: the same, for candidates with at least one nonzero
\* per-term contribution.
LengthBoostStrictNonzero ==
  (probe.kind = "length" /\ scored # <<>>
     /\ contributions(scored[1]) = contributions(scored[2])
     /\ \E k \in 1..Len(scored[1].terms) : scored[1].terms[k].value # Zero) =>
    scored[1].relevanceScore > scored[2].relevanceScore

\* two terms contribute 5 each to both candidates and only the long one
\* earns the multi-term boost
LengthBoostStrictNonzeroWitness ==
  /\ probe.kind = "length"
  /\ scored # <<>>
  /\ Len(probe.contents[1]) = 50
  /\ Len(probe.contents[2]) = 2000
  /\ contributions(scored[1]) = <<Rat(5, 1), Rat(5, 1)>>
  /\ contributions(scored[2]) = <<Rat(5, 1), Rat(5, 1)>>
  /\ scored[1].relevanceScore = 1190
  /\ scored[2].relevanceScore = 1100

----------------------------------------------------------------------------
(* Queries without terms, store failures, frame                            *)

\* the calls whose promise is settled
Settled == {p \in Callers : calls[p].pc \in {"done", "failed"}}

\* queries of the vocabulary that are not ALL and consist of nothing, or of a
\* stop word and a token of two characters
EmptyTermQueries == { <<>>, <<"t","h","e"," ","o","x">> }

\* C11: a call whose query is not ALL and normalizes to no term, and whose
\* store query did not fail, resolves with the empty result and is not
\* rejected, whatever rows the store delivered.
EmptyTermsEmptyResult ==
  \A p \in Settled :
    (calls[p].query \in EmptyTermQueries /\ calls[p].storeError = NoError)
      => /\ ~isAll(calls[p].query)
         /\ calls[p].pc = "done"
         /\ calls[p].error = NoError
         /\ calls[p].result = <<>>

\* both queries without terms have returned over a pool of two rows, one of
\* which holds the stop word of the query
EmptyTermsEmptyResultWitness ==
  /\ calls[1].pc = "done" /\ calls[1].query = <<>>
  /\ calls[2].pc = "done" /\ calls[2].query = <<"t","h","e"," ","o","x">>
  /\ \A p \in Callers :
       /\ Len(calls[p].pool) = 2
       /\ \E k \in 1..2 : calls[p].pool[k].content = <<"t","h","e"," ","c","a","t"," ","s","l","e","e","p","s">>
       /\ calls[p].result = <<>>

\* C12: every call queries the store once; a call whose store query failed is
\* rejected with the error the store reported and resolves with nothing; a
\* call whose store query succeeded is not rejected, and over an empty table
\* it resolves with the empty result.
StoreFailurePropagates ==
  \A p \in Callers :
    /\ calls[p].pc # "idle" => calls[p].fetches = 1
    /\ p \in Settled =>
         /\ calls[p].storeError # NoError =>
              /\ calls[p].pc = "failed"
              /\ calls[p].error = calls[p].storeError
              /\ calls[p].result = <<>>
         /\ calls[p].storeError = NoError =>
              /\ calls[p].pc = "done"
              /\ calls[p].error = NoError
              /\ calls[p].db = {} => calls[p].result = <<>>

\* a scored call over the empty table has returned, and a call over a table
\* with rows has been rejected
StoreFailurePropagatesWitness ==
  /\ calls[1].pc = "done" /\ calls[1].query = <<"c","a","t","s">>
  /\ calls[1].db = {} /\ calls[1].result = <<>>
  /\ calls[2].pc = "failed" /\ calls[2].error = "SQLITE_CORRUPT"
  /\ calls[2].db # {} /\ calls[2].fetches = 1

\* C13: a step of a search (its invocation, its return or its rejection) leaves
\* the table, the row counter and the clock as they were, and a call that
\* returns delivers what searchMemories computes from the table alone, whatever
\* the other caller has in flight.
SearchSideEffectFree ==
  [][calls' # calls =>
       /\ memories' = memories /\ lastID' = lastID /\ now' = now
       /\ \A p \in Callers :
            (calls[p].pc = "fetch" /\ calls'[p].pc = "done") =>
               calls'[p].result = searchMemories(memories, calls[p].query, calls[p].limit)]_vars

\* over a table of two rows an ALL call has returned both while the scored
\* call of the other caller was rejected, and the table is still the one both
\* queried
SearchSideEffectFreeWitness ==
  /\ Cardinality(memories) = 2
  /\ calls[1].pc = "done" /\ isAll(calls[1].query) /\ Len(calls[1].result) = 2
  /\ calls[2].pc = "failed" /\ calls[2].query = <<"c","a","t","s">>
  /\ calls[1].db = memories /\ calls[2].db = memories
  /\ \E r \in memories : r.created_at < now

----------------------------------------------------------------------------
(* Read and write tools                                                    *)

\* the tool calls of a handler that have been answered without a store failure
Answered(name) ==
  {p \in Callers : /\ tool[p].pc = "replied" /\ tool[p].name = name
                   /\ tool[p].storeError = NoError}

\* C14: the response of a read with search ALL lists every row of the table,
\* for every accepted topr.
ReadAllReturnsEverything ==
  \A p \in Answered("read") :
    isAll(tool[p].text) =>
      {rowOf(tool[p].shown[k]) : k \in 1..Len(tool[p].shown)} = tool[p].db

\* the answered DELETE calls that named an id, and those that named none
DeletesById == {p \in Answered("write") : tool[p].sTool = "DELETE" /\ tool[p].id # NoId}

DeletesBySearch == {p \in Answered("write") : tool[p].sTool = "DELETE" /\ tool[p].id = NoId}

\* C15: a DELETE with an id removes the row of that id and no other and answers
\* with success when the table holds such a row, and otherwise leaves the table
\* as it was and answers with isError; no search is made for the content.
DeleteByIdExact ==
  \A p \in DeletesById :
    LET rows == {r \in tool[p].db : r.id = tool[p].id}
    IN /\ tool[p].found = <<>>
       /\ tool[p].after = tool[p].db \ rows
       /\ rows # {} => Cardinality(rows) = 1 /\ ~tool[p].isError
       /\ rows = {} => tool[p].after = tool[p].db /\ tool[p].isError

\* a DELETE with id 2 and a content that matches no memory has removed the
\* second of two rows
DeleteByIdExactWitness ==
  \E p \in DeletesById :
    /\ tool[p].id = 2 /\ tool[p].text = <<"x","y","z">>
    /\ Cardinality(tool[p].db) = 2
    /\ {r.id : r \in tool[p].after} = {1}
    /\ ~tool[p].isError

\* C16: a DELETE without an id removes the first result of
\* searchMemories(content, 1) over the table, and no other row, and names it in
\* a success response; when that search has no result the response has isError
\* and the table is as it was. No write call removes more than one row.
DeleteBySearchTop ==
  /\ \A p \in DeletesBySearch :
       LET top == searchMemories(tool[p].db, tool[p].text, 1)
       IN IF Len(top) = 0
          THEN tool[p].isError /\ tool[p].after = tool[p].db
          ELSE /\ rowOf(top[1]) \in tool[p].db
               /\ tool[p].after = tool[p].db \ {rowOf(top[1])}
               /\ tool[p].named = top[1].id
               /\ ~tool[p].isError
  /\ \A p \in Answered("write") : Cardinality(tool[p].db \ tool[p].after) <= 1

\* DELETE "cats" over two matching rows has removed the older, better ranked
\* row and kept the most recent one
DeleteBySearchTopWitness ==
  \E p \in DeletesBySearch :
    /\ tool[p].text = <<"c","a","t","s">>
    /\ Cardinality(tool[p].db) = 2
    /\ \E kept \in tool[p].after, gone \in tool[p].db \ tool[p].after :
         /\ gone.content = <<"I"," ","l","i","k","e"," ","c","a","t","s">>
         /\ kept.content = <<"m","y"," ","c","a","t"," ","s","l","e","e","p","s">>
         /\ gone.created_at < kept.created_at
    /\ ~tool[p].isError

----------------------------------------------------------------------------
(* Drafting server                                                         *)

\* C17: an ink request over stored drafts whose file can be written completes
\* without error for the formats md and txt, and the file at output_path then
\* holds the compiled text; the formats docx and pages are rejected as not yet
\* implemented.
InkTextSupported ==
  (draftCall.name = "ink" /\ draftCall.error \notin {"Draft not found", "EACCES"}) =>
    /\ draftCall.format \in {"md", "txt"} =>
         /\ draftCall.error = NoError
         /\ draftCall.text # <<>>
         /\ files[draftCall.output_path] = draftCall.text
    /\ draftCall.format \in {"docx", "pages"} =>
         draftCall.error \in {"DOCX format not yet implemented",
                              "Pages format not yet implemented"}

----------------------------------------------------------------------------
(* Per-term strategies and labels                                          *)

\* the strategies of the per-term loop, each stated on its own
exactApplies(t, terms) == t \in Range(terms)

partialApplies(t, terms) ==
  \E c \in Range(terms) : strIncludes(c, t) \/ strIncludes(t, c)

synonymApplies(t, terms) ==
  \E e \in 1..Len(synonyms) :
    /\ t \in Range(synonymWords(e))
    /\ Range(terms) \cap Range(synonymWords(e)) # {}

\* the content terms near enough to t: similarity above 0.7, longer length above 3
fuzzyNear(t, terms) ==
  {c \in Range(terms) :
     LET maxLen == Max2(Len(t), Len(c))
     IN /\ maxLen > 3
        /\ 10 * (maxLen - levenshteinDistance(t, c)) > 7 * maxLen}

\* twice the similarity of t and c
twiceSimilarity(t, c) ==
  Rat(2 * (Max2(Len(t), Len(c)) - levenshteinDistance(t, c)), Max2(Len(t), Len(c)))

\* twice the best similarity among the near content terms
fuzzyValue(t, terms) ==
  LET values == {twiceSimilarity(t, c) : c \in fuzzyNear(t, terms)}
  IN CHOOSE v \in values : \A w \in values : ~RatLess(v, w)

contextApplies(t, text) == \E k \in 1..6 : strIncludes(text, contexts(t)[k])

\* the one contribution of a term: that of the first strategy that applies
firstStrategy(t, terms, text) ==
  IF exactApplies(t, terms) THEN [via |-> "exact", value |-> Rat(10, 1)]
  ELSE IF partialApplies(t, terms) THEN [via |-> "partial", value |-> Rat(5, 1)]
  ELSE IF synonymApplies(t, terms) THEN [via |-> "synonym", value |-> Rat(3, 1)]
  ELSE IF fuzzyNear(t, terms) # {} THEN [via |-> "fuzzy", value |-> fuzzyValue(t, terms)]
  ELSE IF contextApplies(t, text) THEN [via |-> "context", value |-> Rat(1, 1)]
  ELSE [via |-> "none", value |-> Zero]

\* C18: every query term, repeated or not, contributes the value of the first
\* strategy that applies to it in the order exact 10, partial 5, synonym 3,
\* fuzzy twice the best similarity, context 1, none 0, and the score is the sum
\* of these contributions, multiplied by the length boost and raised by the
\* multi-term boost.
PerTermPriority ==
  \A k \in 1..Len(scored) :
    LET qt == preprocessText(probe.query)
        terms == preprocessText(probe.contents[k])
        text == toLowerCase(probe.contents[k])
        each == [i \in 1..Len(qt) |-> firstStrategy(qt[i], terms, text)]
        sum == sumScores(each, Len(qt))
    IN /\ scored[k].terms = each
       /\ scored[k].relevanceScore =
            ((2 * sum.n * (5000 + lengthBoost(probe.contents[k])) + 50 * sum.d)
               \div (100 * sum.d)) + multiTermBoost(qt, terms)

\* the six-term query has been scored with one term per strategy
PerTermPriorityWitness ==
  /\ probe.kind = "strategy" /\ scored # <<>>
  /\ probe.query = <<"c","a","t","e","g","o","r","y"," ","s","t","i","n","g"," ","f","i","x"," ","p","r","o","s","e","s","s"," ","x","y","z"," ","c","a","t","s">>
  /\ [i \in 1..6 |-> scored[1].terms[i].via]
       = <<"partial", "context", "synonym", "fuzzy", "none", "exact">>
  /\ scored[1].terms[4].value = Rat(12, 7)

\* C19: for a query of at least one term the label is exact when every query
\* term is a content term, else partial when some query term is, else semantic
\* when the synonym strategy applies to some query term, else fuzzy when some
\* query term has a near content term, else context.
LabelClassification ==
  \A k \in 1..Len(scored) :
    LET qt == Range(preprocessText(probe.query))
        terms == preprocessText(probe.contents[k])
    IN qt # {} =>
         scored[k].matchType =
           IF \A t \in qt : exactApplies(t, terms) THEN "exact"
           ELSE IF \E t \in qt : exactApplies(t, terms) THEN "partial"
           ELSE IF \E t \in qt : synonymApplies(t, terms) THEN "semantic"
           ELSE IF \E t \in qt : fuzzyNear(t, terms) # {} THEN "fuzzy"
           ELSE "context"

\* a query with a synonym term and a misspelt term, none of them a content
\* term, has been labelled semantic
LabelClassificationWitness ==
  /\ probe.kind = "strategy" /\ scored # <<>>
  /\ probe.query = <<"s","t","i","n","g"," ","f","i","x"," ","p","r","o","s","e","s","s"," ","x","y","z">>
  /\ scored[1].matchType = "semantic"
  /\ \E i \in 1..Len(scored[1].terms) : scored[1].terms[i].via = "fuzzy"

\* C20: a query that normalizes to no term is labelled context against every
\* content.
ZeroTermLabelContext ==
  \A k \in 1..Len(scored) :
    preprocessText(probe.query) = <<>> => scored[k].matchType = "context"

----------------------------------------------------------------------------
(* Boosts, context templates, tokens                                       *)

\* the score of candidate k of the probe when the multi-term boost is boost
\* hundredths: the sum of the contributions, times the length boost, rounded,
\* plus the boost
scoreWithBoost(k, boost) ==
  LET sum == sumScores(scored[k].terms, Len(scored[k].terms))
  IN ((2 * sum.n * (5000 + lengthBoost(probe.contents[k])) + 50 * sum.d)
        \div (100 * sum.d)) + boost

\* C21: the multi-term boost counts the query terms that are a content term,
\* are contained in a content term or contain a content term; a count above one
\* adds count * 0.5 after the length-boost multiplication, a count of 0 or 1
\* adds nothing.
MultiTermBoostEitherDirection ==
  \A k \in 1..Len(scored) :
    LET qt == preprocessText(probe.query)
        terms == preprocessText(probe.contents[k])
        count == Cardinality({i \in 1..Len(qt) :
                   exactApplies(qt[i], terms) \/ partialApplies(qt[i], terms)})
    IN scored[k].relevanceScore = scoreWithBoost(k, IF count > 1 THEN count * 50 ELSE 0)

\* the query terms (by position) that are a content term or are contained in
\* one
countedTerms(qt, terms) ==
  {i \in 1..Len(qt) :
     exactApplies(qt[i], terms) \/ \E c \in Range(terms) : strIncludes(c, qt[i])}

\* C21 (amended): the multi-term boost counts the query terms that are a
\* content term or are contained in a content term; a query term that only
\* contains a content term is not counted.  A count above one adds count * 0.5
\* after the length-boost multiplication, a count of 0 or 1 adds nothing.
MultiTermBoostOneDirection ==
  \A k \in 1..Len(scored) :
    LET count == Cardinality(countedTerms(preprocessText(probe.query),
                                          preprocessText(probe.contents[k])))
    IN scored[k].relevanceScore = scoreWithBoost(k, IF count > 1 THEN count * 50 ELSE 0)

\* two query terms are counted and a third, which contains a content term and
\* scores as a partial match, is not: the boost is 2 * 0.5
MultiTermBoostOneDirectionWitness ==
  \E k \in 1..Len(scored) :
    LET qt == preprocessText(probe.query)
        terms == preprocessText(probe.contents[k])
    IN /\ Cardinality(countedTerms(qt, terms)) = 2
       /\ \E i \in 1..Len(qt) :
            /\ i \notin countedTerms(qt, terms)
            /\ scored[k].terms[i].via = "partial"
       /\ scored[k].relevanceScore = scoreWithBoost(k, 100)
       /\ scored[k].relevanceScore > scoreWithBoost(k, 0)

\* the words of text that the filter of preprocessText keeps, before stemming
keptWords(text) ==
  LET lowered == toLowerCase(text)
      cleaned == [i \in 1..Len(lowered) |->
                    IF IsWordChar(lowered[i]) \/ IsSpace(lowered[i])
                    THEN lowered[i] ELSE " "]
  IN SelectSeq(split(cleaned), LAMBDA w : Len(w) > 2 /\ w \notin stopWords)

\* C22: a query term contributes 1 by context only if one of the six phrase
\* templates built from the unstemmed query word occurs in the lower-cased
\* content.
ContextFromUnstemmedWord ==
  \A k \in 1..Len(scored) : \A i \in 1..Len(scored[k].terms) :
    scored[k].terms[i].via = "context"
      => \E j \in 1..6 :
           strIncludes(toLowerCase(probe.contents[k]),
                       contexts(keptWords(probe.query)[i])[j])

\* the token sequences that scoring the probe has produced
tokenSequences ==
  UNION {{scored[k].queryTerms, scored[k].contentTerms} : k \in 1..Len(scored)}

\* w is a word of text: a maximal run of letters, digits and underscores of
\* the lower-cased text
isWordOf(w, text) ==
  LET lowered == toLowerCase(text)
  IN \E a \in 1..(Len(lowered) - Len(w) + 1) :
       LET b == a + Len(w) - 1
       IN /\ a = 1 \/ ~IsWordChar(lowered[a - 1])
          /\ b = Len(lowered) \/ ~IsWordChar(lowered[b + 1])
          /\ SubSeq(lowered, a, b) = w
          /\ \A c \in a..b : IsWordChar(lowered[c])

\* seq is the token sequence of text: one token for each word of text that is
\* longer than two characters and no stop word, its stem
tokensOf(seq, text) ==
  LET kept == keptWords(text)
  IN /\ Len(seq) = Len(kept)
     /\ \A i \in 1..Len(seq) :
          /\ Len(seq[i]) > 2
          /\ seq[i] = stemWord(kept[i])
          /\ isWordOf(kept[i], text)
          /\ Len(kept[i]) > 2
          /\ kept[i] \notin stopWords

\* C23: the token sequence of preprocessText holds no stop word and no token
\* of length <= 2.
TokensNeverStopWords ==
  \A seq \in tokenSequences : \A i \in 1..Len(seq) :
    seq[i] \notin stopWords /\ Len(seq[i]) > 2

\* C23 (amended): every token of preprocessText is longer than two characters
\* and is the once-stemmed form of a lower-cased word of the input that is
\* itself longer than two characters and not a stop word; the token itself may
\* be a stop word.
TokensFromKeptWords ==
  \A k \in 1..Len(scored) :
    /\ tokensOf(scored[k].queryTerms, probe.query)
    /\ tokensOf(scored[k].contentTerms, probe.contents[k])

\* the query "showing results" has been normalized: its first token is the stop
\* word "show", the stem of "showing"
TokensFromKeptWordsWitness ==
  \E k \in 1..Len(scored) :
    /\ Len(scored[k].queryTerms) = 2
    /\ scored[k].queryTerms[1] \in stopWords
    /\ scored[k].queryTerms[1] # keptWords(probe.query)[1]
    /\ stemWord(keptWords(probe.query)[1]) = scored[k].queryTerms[1]

----------------------------------------------------------------------------
(* Pool, labels, ranking                                                   *)

\* the rows of db created later than row r
newerThan(db, r) == {m \in db : m.created_at > r.created_at}

\* C24: for a query other than ALL every returned record is among the 50 most
\* recently created rows of the table, and a search whose only matching row has
\* 50 or more rows created after it returns nothing.
BoundedPool ==
  \A p \in Done :
    calls[p].query \notin AllSpellings =>
      /\ \A k \in 1..Len(calls[p].result) :
           /\ rowOf(calls[p].result[k]) \in calls[p].db
           /\ Cardinality(newerThan(calls[p].db, rowOf(calls[p].result[k]))) < 50
      /\ (\A m \in calls[p].db :
            scoreIn(calls[p].query, m) > 0
              => Cardinality(newerThan(calls[p].db, m)) >= 50)
           => calls[p].result = <<>>

\* a search for cats has returned nothing from a table of more than 50 rows
\* whose oldest row is the only one that holds the word
BoundedPoolWitness ==
  \E p \in Done :
    /\ calls[p].query = <<"c","a","t","s">>
    /\ Cardinality(calls[p].db) > 50
    /\ \E m \in calls[p].db :
         /\ m.content = PoolContent
         /\ scoreIn(calls[p].query, m) > 0
         /\ Cardinality(newerThan(calls[p].db, m)) >= 50
    /\ calls[p].result = <<>>

\* the candidates of the probe that a search returns
returned == {k \in 1..Len(scored) : scored[k].relevanceScore > 0}

\* C25: the label of a returned result names a strategy that contributed to
\* its score: semantic, fuzzy or context has a term scored by the synonym, the
\* fuzzy or the context strategy, exact or partial has a term that contributed
\* 10.
LabelNamesContribution ==
  \A k \in returned :
    LET via == {scored[k].terms[i].via : i \in 1..Len(scored[k].terms)}
    IN /\ scored[k].matchType = "semantic" => "synonym" \in via
       /\ scored[k].matchType = "fuzzy" => "fuzzy" \in via
       /\ scored[k].matchType = "context" => "context" \in via
       /\ scored[k].matchType \in {"exact", "partial"} => "exact" \in via

\* returned candidate k is labelled exact, returned candidate j is not
exactAgainstOther(k, j) ==
  /\ k \in returned /\ j \in returned
  /\ scored[k].matchType = "exact"
  /\ scored[j].matchType \in {"partial", "semantic", "fuzzy", "context"}

\* C26: whatever the number of query terms and the content lengths, a
\* candidate labelled exact is not ranked below a candidate of the same result
\* with another label: its score is not lower.
ExactNeverBelow ==
  \A k, j \in 1..Len(scored) :
    exactAgainstOther(k, j) => scored[k].relevanceScore >= scored[j].relevanceScore

\* C26 (amended): for a query of at most three terms a candidate labelled exact
\* scores strictly higher than a candidate of the same result with another
\* label, whatever the content lengths.
ExactAboveUpToThreeTerms ==
  \A k, j \in 1..Len(scored) :
    (exactAgainstOther(k, j) /\ Len(scored[k].queryTerms) <= 3)
      => scored[k].relevanceScore > scored[j].relevanceScore

\* a query of three terms: the exact candidate of 1000 characters scores 31.5,
\* above the short candidate that holds two of the terms and is labelled partial
ExactAboveUpToThreeTermsWitness ==
  /\ Len(scored) = 2
  /\ exactAgainstOther(2, 1)
  /\ Len(scored[2].queryTerms) = 3
  /\ Len(probe.contents[2]) = 1000
  /\ scored[1].matchType = "partial"
  /\ scored[2].relevanceScore = 3150
  /\ scored[2].relevanceScore > scored[1].relevanceScore

----------------------------------------------------------------------------
(* Write tool: what a DELETE removes                                       *)

\* C27: a DELETE without an id only removes a memory that the scorer matches
\* to the content of the call, whatever that content is.
DeleteBySearchRelated ==
  \A p \in DeletesBySearch :
    \A r \in tool[p].db \ tool[p].after : scoreIn(tool[p].text, r) > 0

\* the ids of the rows of a table
rowIds(db) == {r.id : r \in db}

\* the clients whose last call is a DELETE answered with success
successfulDeletes ==
  {p \in Answered("write") : tool[p].sTool = "DELETE" /\ ~tool[p].isError}

\* a step in which the DELETE statement of client p runs and p is answered
deleteAnswered(p) ==
  /\ tool[p].pc \in {"delete", "remove"}
  /\ tool'[p].pc = "replied"
  /\ tool'[p].storeError = NoError

\* what every step of interleaved write calls satisfies
WritersStep ==
  /\ \A p \in Callers :
       deleteAnswered(p) =>
         LET target == IF tool[p].pc = "delete" THEN tool[p].id ELSE tool[p].found[1].id
         IN /\ tool'[p].named = target
            /\ ~tool'[p].isError =>
                 /\ target \in rowIds(memories)
                 /\ memories' = {r \in memories : r.id # target}
            /\ target \notin rowIds(memories) =>
                 /\ tool'[p].isError
                 /\ memories' = memories
  /\ \A r \in memories' \ memories : r.id > lastID /\ r.id \notin rowIds(memories)
  /\ lastID' >= lastID
  /\ \A r \in memories : r.id <= lastID
  /\ \A p, q \in Callers :
       (/\ p # q
        /\ \A c \in {p, q} : /\ tool'[c].pc = "replied" /\ tool'[c].name = "write"
                              /\ tool'[c].sTool = "DELETE" /\ ~tool'[c].isError
                              /\ tool'[c].storeError = NoError)
         => tool'[p].named # tool'[q].named

\* C28: under any interleaving of write calls of two clients, a successful
\* DELETE response names a memory that the DELETE statement of this call
\* removed, a call whose memory was removed in between answers with an error,
\* and no id is given to a second memory, so that each memory is reported as
\* deleted by at most one successful response.
WritersConsistent == [][WritersStep]_vars

\* both clients searched for cats and selected memory 1; the first has removed
\* it and was answered with success, the second was answered with an error
WritersConsistentWitness ==
  \E p, q \in Callers :
    /\ p # q
    /\ p \in successfulDeletes /\ tool[p].reply = "Found and deleted"
    /\ q \in Answered("write") /\ tool[q].reply = "Failed to delete" /\ tool[q].isError
    /\ tool[p].named = tool[q].named
    /\ tool[q].found # <<>> /\ tool[q].found[1].id = tool[q].named

----------------------------------------------------------------------------
(* Reading back what was written                                           *)

\* the rows a read response lists
shownRows(p) == {rowOf(tool[p].shown[k]) : k \in 1..Len(tool[p].shown)}

\* the rows of the table whose content is the search text of the read
readBacks(p) == {r \in tool[p].db : r.content = tool[p].text}

----------------------------------------------------------------------------
(* Drafting server: a failed quill request                                 *)

\* a quill request that ends in an error adds no draft with the requested
\* custom_id to the store
QuillErrorStep ==
  (draftCall'.name = "quill" /\ draftCall'.error # NoError)
    => \A d \in drafts' \ drafts : d.id # draftCall'.custom_id

\* C30: whenever handleQuillDraft fails, by a content validation failure or a
\* storage error, the draft store is left as it was.
QuillErrorLeavesStore == [][QuillErrorStep]_vars

=============================================================================
